---- MODULE Spec2Model ----
(***************************************************************************)
(* AVAS AI: the Express relay (apps/api/src/index.ts), the React web       *)
(* client (apps/web/src/App.tsx) and the Expo mobile client.               *)
(*                                                                         *)
(* Six specifications share this module:                                   *)
(*   SpecRelay   one POST /chat request handled by the relay               *)
(*   SpecStream  the web client's stream read loop over one wire stream    *)
(*   Spec        the web client: sends, cancellation, speech callback,     *)
(*               conversation store                                        *)
(*   SpecRace    the web client with one send more, sends overlapping      *)
(*   SpecMobile  the mobile client: sends and the speech callback          *)
(*   SpecChats   the web client from its first render: the startup load,   *)
(*               sends that complete, and the conversation list            *)
(* Text is a sequence of symbols (characters, or a fixed phrase as one      *)
(* symbol), so that concatenation, trimming and slicing are computed.      *)
(***************************************************************************)
EXTENDS Integers, Sequences, FiniteSets, TLC

VARIABLES
    \* ---- relay (apps/api/src/index.ts) ----
    req,            \* the request body: [messages, stream]
    genAI,          \* TRUE iff GEMINI_API_KEY was set at start-up
    rpc,            \* where the POST /chat handler is
    res,            \* the Express response object
    history,        \* the history handed to geminiModel.startChat
    backendCalls,   \* network calls made to the backend
    backendText,    \* fragments the backend has produced so far
    escaped,        \* TRUE iff an error left the async handler uncaught
    \* ---- stream read loop (apps/web/src/App.tsx 394-423) ----
    wire,           \* the whole response body, as the relay wrote it
    unread,         \* the part of wire no read has returned yet
    assistantMessage, \* the accumulated assistant text
    reads,          \* the chunks the reads returned, in order
    readerDone,     \* TRUE once reader.read() returned done
    \* ---- web client (apps/web/src/App.tsx) ----
    messages,       \* useState: the displayed turn sequence
    isGenerating,   \* useState
    status,         \* useState: the status line
    chats,          \* useState: the saved conversations, newest first
    currentChatId,  \* useState: id of the active conversation, NoChat for null
    abortControllerRef, \* useRef: the send whose AbortController is current
    sends,          \* the sendMessage calls started so far, each with its closure
    recognition,    \* the SpeechRecognition session and the closure of its onresult
    isListening,    \* useState
    utterance,      \* the text last handed to speechSynthesis.speak, empty before
    clock,          \* Date.now(), advanced when an id is taken from it
    storage,        \* localStorage item "avas-chats": absent, or its string
    startup,        \* how far the first render's effects have run, and what
                    \* the load effect read and handed to setChats
    \* ---- mobile client (App of the Expo app) ----
    mobile          \* its useState values, the Voice callback's closure, the
                    \* sendMessage calls started so far

relayVars == <<req, genAI, rpc, res, history, backendCalls, backendText, escaped>>
streamVars == <<wire, unread, assistantMessage, reads, readerDone>>
webVars == <<messages, isGenerating, status, chats, currentChatId, abortControllerRef,
             sends, recognition, isListening, utterance, clock, storage, startup>>
vars == <<relayVars, streamVars, webVars, mobile>>

----------------------------------------------------------------------------
(* Bounds                                                                  *)

\* longest messages array of a request
MaxMsgs == 3
\* most fragments the backend yields for one request
MaxFragments == 2
\* most lines of a wire stream handed to the read loop
MaxLines == 3
\* most sendMessage calls that start a request
MaxSends == 2

\* generateChatTitle: slice(0, 50)
TitleMax == 50

----------------------------------------------------------------------------
(* Text helpers                                                            *)

RECURSIVE Concat(_)
Concat(ss) == IF ss = <<>> THEN <<>> ELSE Head(ss) \o Concat(Tail(ss))

\* String.prototype.trim() leaves a non-empty string
TrimNonEmpty(s) == \E i \in 1..Len(s) : s[i] # " "

SeqsUpTo(S, n) == UNION {[1..k -> S] : k \in 0..n}

----------------------------------------------------------------------------
(* Wire format of a streamed response.  One symbol "{" stands for the      *)
(* bytes {"message":{"content":" that open a line, and one symbol "}" for  *)
(* the bytes "}} that close it; the text between them is the fragment.     *)

\* the line written without its newline
WireLine_NoNewline(text) == <<"{">> \o text \o <<"}">>

\* JSON.stringify({ message: { content: text } }) + "\n"
WireLine(text) == <<"{">> \o text \o <<"}", "\n">>

\* NOTJSON
JunkLine == <<"x", "\n">>
BlankLine == <<"\n">>

\* chunk.split("\n")
RECURSIVE SplitAcc(_, _)
SplitAcc(s, cur) ==
    IF s = <<>> THEN <<cur>>
    ELSE IF Head(s) = "\n" THEN <<cur>> \o SplitAcc(Tail(s), <<>>)
    ELSE SplitAcc(Tail(s), Append(cur, Head(s)))

Split(s) == SplitAcc(s, <<>>)

\* JSON.parse(line) succeeds
JsonValid(line) ==
    /\ Len(line) >= 2
    /\ line[1] = "{"
    /\ line[Len(line)] = "}"
    /\ \A i \in 2..(Len(line) - 1) : line[i] \notin {"{", "}"}

\* parsed.message.content
JsonContent(line) == SubSeq(line, 2, Len(line) - 1)

\* the line passes JSON.parse and parsed.message?.content is truthy
Appends(line) == JsonValid(line) /\ JsonContent(line) # <<>>

\* the contents the loop body appends for one chunk, in order:
\* chunk.split("\n").filter((line) => line.trim()), then the for loop
ChunkContents(chunk) ==
    [i \in 1..Len(SelectSeq(SelectSeq(Split(chunk), TrimNonEmpty), Appends)) |->
        JsonContent(SelectSeq(SelectSeq(Split(chunk), TrimNonEmpty), Appends)[i])]

\* assistantMessage after the loop body ran on one chunk
ProcessChunk(acc, chunk) == acc \o Concat(ChunkContents(chunk))

\* one setMessages call for the whole chunk
Publications_Batched(acc, chunk) ==
    IF ChunkContents(chunk) = <<>> THEN <<>> ELSE <<ProcessChunk(acc, chunk)>>

\* the values of assistantMessage handed to setMessages while the loop body
\* runs on one chunk, in order: updateCount % 1 === 0 holds on every append
Publications(acc, chunk) ==
    [k \in 1..Len(ChunkContents(chunk)) |->
        acc \o Concat(SubSeq(ChunkContents(chunk), 1, k))]

----------------------------------------------------------------------------
(* Web client: App.tsx                                                     *)
(*                                                                         *)
(* React gives every render its own closures.  A handler called from the   *)
(* page runs with the state of the latest render; an async sendMessage     *)
(* call keeps the messages, chats and currentChatId of the render it was   *)
(* called in, and recognition.onresult keeps the sendMessage of the render *)
(* in which startListening ran.                                            *)

Turn(role, content) == [role |-> role, content |-> content]

Greeting == <<"Hi, I am AVAS. Ask me anything or tap the mic to speak.">>
initialMessages == <<Turn("assistant", Greeting)>>

\* currentChatId === null
NoChat == 0

Ready == <<"Ready">>
Processing == <<"Processing...">>
Cancelled == <<"Cancelled">>
Stopped == <<"Stopped">>
NetworkError == <<"Network error. Is the API running?">>
NoReply == <<"No reply from model.">>
Listening == <<"Listening...">>
ErrorStatus(detail) == <<"Error: ", detail>>

\* what the user types (a blank input is refused at line 360), and what
\* speech recognition hears
TypedTexts == {<<"q">>, <<" ">>}
Transcripts == {<<"v">>}
\* the fragments of the relay's reply, in the order it writes them
Reply == <<"a", "b">>
\* the line of the fragment the relay writes after n fragments
ReplyLine(n) == WireLine(<<Reply[n + 1]>>)
\* what one reader.read() may return once text was received: a line that is
\* not JSON, the line of the next fragment, or the lines of the next two
\* fragments with a line that is not JSON between them
WebChunks(text) ==
    {JunkLine}
        \cup (IF Len(text) < Len(Reply) THEN {ReplyLine(Len(text))} ELSE {})
        \cup (IF Len(text) + 1 < Len(Reply)
              THEN {ReplyLine(Len(text)) \o JunkLine \o ReplyLine(Len(text) + 1)}
              ELSE {})
\* await response.json().catch(() => null) of a non-2xx response
NullData == [hasDetail |-> FALSE, detail |-> "", hasError |-> FALSE, error |-> ""]
ErrorDatas == {NullData,
               [hasDetail |-> TRUE, detail |-> "d", hasError |-> TRUE, error |-> "e"],
               [hasDetail |-> FALSE, detail |-> "", hasError |-> TRUE, error |-> "e"]}

\* the detail with error looked at before detail
Detail_ErrorFirst(data) ==
    IF data.hasError THEN data.error
    ELSE IF data.hasDetail THEN data.detail
    ELSE "unknown_error"

\* data?.detail ?? data?.error ?? "unknown_error"
Detail(data) ==
    IF data.hasDetail THEN data.detail
    ELSE IF data.hasError THEN data.error
    ELSE "unknown_error"

NoRecognition == [active |-> FALSE, isGenerating |-> FALSE, messages |-> <<>>,
                  chats |-> <<>>, currentChatId |-> NoChat]

InFlight(i) == sends[i].pc # "done"

\* a promise of an aborted send was rejected: its continuation is a microtask,
\* which runs before any other event is handled
MicrotaskPending == \E i \in DOMAIN sends : sends[i].aborted /\ InFlight(i)

----------------------------------------------------------------------------
(* The JSON text of the conversation list in localStorage.  A string is a  *)
(* quote, its characters with every quote and backslash escaped by a       *)
(* backslash, and a quote; one symbol stands for each run of structural    *)
(* bytes: "{id:" for {"id": and ",title:" for ,"title": and so on.         *)

Quote == "\""
Backslash == "\\"

\* the string body without escaping
EscapeText_Raw(t) == t

RECURSIVE EscapeText(_)
EscapeText(t) ==
    IF t = <<>> THEN <<>>
    ELSE (IF Head(t) \in {Quote, Backslash} THEN <<Backslash, Head(t)>> ELSE <<Head(t)>>)
            \o EscapeText(Tail(t))

JsonString(t) == <<Quote>> \o EscapeText(t) \o <<Quote>>

\* Date.now() values the model can hold
Clocks == 0..(MaxSends + 1)

JsonNumber(n) == <<ToString(n)>>

RECURSIVE JoinComma(_)
JoinComma(parts) ==
    IF parts = <<>> THEN <<>>
    ELSE IF Len(parts) = 1 THEN parts[1]
    ELSE parts[1] \o <<",">> \o JoinComma(Tail(parts))

StringifyTurn(m) ==
    <<"{role:">> \o JsonString(<<m.role>>) \o <<",content:">> \o JsonString(m.content) \o <<"}">>

StringifyTurns(msgs) ==
    <<"[">> \o JoinComma([k \in 1..Len(msgs) |-> StringifyTurn(msgs[k])]) \o <<"]">>

StringifyChat(c) ==
    <<"{id:">> \o JsonString(JsonNumber(c.id))
        \o <<",title:">> \o JsonString(c.title)
        \o <<",messages:">> \o StringifyTurns(c.messages)
        \o <<",createdAt:">> \o JsonNumber(c.createdAt) \o <<"}">>

\* JSON.stringify(chats)
Stringify(cs) ==
    <<"[">> \o JoinComma([k \in 1..Len(cs) |-> StringifyChat(cs[k])]) \o <<"]">>

\* JSON.parse: every parser takes the text and a position, and gives whether
\* it succeeded, the value and the position after it
ParseFailed == [ok |-> FALSE, val |-> <<>>, pos |-> 0]
Parsed(v, p) == [ok |-> TRUE, val |-> v, pos |-> p]

At(s, p, sym) == p <= Len(s) /\ s[p] = sym

RECURSIVE ScanString(_, _, _)
ScanString(s, p, acc) ==
    IF p > Len(s) THEN ParseFailed
    ELSE IF s[p] = Quote THEN Parsed(acc, p + 1)
    ELSE IF s[p] = Backslash
         THEN IF p + 1 > Len(s) THEN ParseFailed
              ELSE ScanString(s, p + 2, Append(acc, s[p + 1]))
    ELSE ScanString(s, p + 1, Append(acc, s[p]))

ParseString(s, p) == IF At(s, p, Quote) THEN ScanString(s, p + 1, <<>>) ELSE ParseFailed

IsNumeral(sym) == \E n \in Clocks : ToString(n) = sym
NumeralValue(sym) == CHOOSE n \in Clocks : ToString(n) = sym

ParseNumber(s, p) ==
    IF p <= Len(s) /\ IsNumeral(s[p]) THEN Parsed(NumeralValue(s[p]), p + 1) ELSE ParseFailed

\* F of the value of x; x is worked out once, however often F uses it
Bind(x, F(_)) == CHOOSE v \in {F(y) : y \in {x}} : TRUE

\* the parser Next applied after the symbol sym, which must be at p
After(s, p, sym, Next(_, _)) == IF At(s, p, sym) THEN Next(s, p + 1) ELSE ParseFailed

ParseTurn(s, p) ==
    Bind(After(s, p, "{role:", ParseString), LAMBDA r :
        IF ~r.ok \/ Len(r.val) # 1 THEN ParseFailed
        ELSE Bind(After(s, r.pos, ",content:", ParseString), LAMBDA c :
            IF c.ok /\ At(s, c.pos, "}")
            THEN Parsed([role |-> r.val[1], content |-> c.val], c.pos + 1)
            ELSE ParseFailed))

RECURSIVE ParseTurnsFrom(_, _, _)
ParseTurnsFrom(s, p, acc) ==
    Bind(ParseTurn(s, p), LAMBDA t :
        IF ~t.ok THEN ParseFailed
        ELSE IF At(s, t.pos, ",") THEN ParseTurnsFrom(s, t.pos + 1, Append(acc, t.val))
        ELSE IF At(s, t.pos, "]") THEN Parsed(Append(acc, t.val), t.pos + 1)
        ELSE ParseFailed)

ParseTurns(s, p) ==
    IF ~At(s, p, "[") THEN ParseFailed
    ELSE IF At(s, p + 1, "]") THEN Parsed(<<>>, p + 2)
    ELSE ParseTurnsFrom(s, p + 1, <<>>)

ParseChat(s, p) ==
    Bind(After(s, p, "{id:", ParseString), LAMBDA i :
        IF ~i.ok \/ Len(i.val) # 1 THEN ParseFailed
        ELSE IF ~IsNumeral(i.val[1]) THEN ParseFailed
        ELSE Bind(After(s, i.pos, ",title:", ParseString), LAMBDA t :
            IF ~t.ok THEN ParseFailed
            ELSE Bind(After(s, t.pos, ",messages:", ParseTurns), LAMBDA m :
                IF ~m.ok THEN ParseFailed
                ELSE Bind(After(s, m.pos, ",createdAt:", ParseNumber), LAMBDA c :
                    IF c.ok /\ At(s, c.pos, "}")
                    THEN Parsed([id |-> NumeralValue(i.val[1]), title |-> t.val,
                                 messages |-> m.val, createdAt |-> c.val], c.pos + 1)
                    ELSE ParseFailed))))

RECURSIVE ParseChatsFrom(_, _, _)
ParseChatsFrom(s, p, acc) ==
    Bind(ParseChat(s, p), LAMBDA c :
        IF ~c.ok THEN ParseFailed
        ELSE IF At(s, c.pos, ",") THEN ParseChatsFrom(s, c.pos + 1, Append(acc, c.val))
        ELSE IF At(s, c.pos, "]") THEN Parsed(Append(acc, c.val), c.pos + 1)
        ELSE ParseFailed)

ParseChats(s, p) ==
    IF ~At(s, p, "[") THEN ParseFailed
    ELSE IF At(s, p + 1, "]") THEN Parsed(<<>>, p + 2)
    ELSE ParseChatsFrom(s, p + 1, <<>>)

\* JSON.parse(raw): whether it succeeds, and its value
JsonParse(raw) == ParseChats(raw, 1)

\* a value followed by more text accepted
ParsedWhole_Prefix(raw, r) == r.ok

\* JSON.parse(raw) does not throw: the whole text is one value
ParsedWhole(raw, r) == r.ok /\ r.pos = Len(raw) + 1

\* localStorage.getItem gives null for a missing item
Absent == [present |-> FALSE, raw |-> <<>>]
Stored(raw) == [present |-> TRUE, raw |-> raw]

\* readJson(key, fallback): raw ? JSON.parse(raw) : fallback, and the
\* fallback when JSON.parse throws
ReadJson(item, fallback) ==
    IF ~item.present \/ item.raw = <<>> THEN fallback
    ELSE Bind(JsonParse(item.raw), LAMBDA r :
            IF ParsedWhole(item.raw, r) THEN r.val ELSE fallback)

\* the persistence effect without a write
Persist_Skipped(cs) == storage

\* useEffect(() => localStorage.setItem("avas-chats", JSON.stringify(chats)), [chats])
Persist(cs) == Stored(Stringify(cs))

BeforeStartup == [phase |-> "unmounted", read |-> Absent, loaded |-> <<>>]
AfterStartup == [phase |-> "mounted", read |-> Absent, loaded |-> <<>>]
Mounted == startup.phase = "mounted"

IsUser(m) == m.role = "user"

\* userMsg.content.slice(0, 50) + (userMsg.content.length > 50 ? "..." : "")
TitleOf(content) ==
    SubSeq(content, 1, IF Len(content) > TitleMax THEN TitleMax ELSE Len(content))
        \o (IF Len(content) > TitleMax THEN <<"...">> ELSE <<>>)

GenerateChatTitle(msgs) ==
    IF SelectSeq(msgs, IsUser) # <<>>
    THEN TitleOf(SelectSeq(msgs, IsUser)[1].content)
    ELSE <<"New chat">>

\* saveChat(msgs) under the closure (cChats, cCurrentChatId): the new chats
SaveChatChats(cChats, cCurrentChatId, msgs, id) ==
    IF cCurrentChatId # NoChat
    THEN [k \in DOMAIN cChats |->
            IF cChats[k].id = cCurrentChatId
            THEN [cChats[k] EXCEPT !.messages = msgs, !.title = GenerateChatTitle(msgs)]
            ELSE cChats[k]]
    ELSE <<[id |-> id, title |-> GenerateChatTitle(msgs), messages |-> msgs,
            createdAt |-> id]>> \o cChats

\* saveChat(msgs): setCurrentChatId(newChat.id) in the create branch only
SaveChatCurrent(cCurrentChatId, id) ==
    IF cCurrentChatId # NoChat THEN currentChatId ELSE id

\* speak(text)
Speak(text) == utterance' = text

\* sendMessage(text) up to its first await, under the closure of the render
\* it was created in, while fewer than cap calls have started
StartSendWithin(cap, text, cIsGenerating, cMessages, cChats, cCurrentChatId) ==
    /\ TrimNonEmpty(text)
    /\ ~cIsGenerating
    /\ Len(sends) < cap
    /\ messages' = cMessages \o <<Turn("user", text), Turn("assistant", <<>>)>>
    /\ status' = Processing
    /\ isGenerating' = TRUE
    /\ abortControllerRef' = Len(sends) + 1
    /\ sends' = Append(sends,
            [pc |-> "fetch",
             nextMessages |-> Append(cMessages, Turn("user", text)),
             assistantMessage |-> <<>>,
             received |-> <<>>,
             published |-> <<>>,
             chats |-> cChats,
             currentChatId |-> cCurrentChatId,
             aborted |-> FALSE,
             data |-> NullData,
             outcome |-> "running"])

StartSend(text, cIsGenerating, cMessages, cChats, cCurrentChatId) ==
    StartSendWithin(MaxSends, text, cIsGenerating, cMessages, cChats, cCurrentChatId)

\* the call returns: the conversation list and the active id it closed over
\* are no longer reachable
Finish(i, outcome) ==
    [sends EXCEPT ![i].pc = "done", ![i].outcome = outcome,
                  ![i].chats = <<>>, ![i].currentChatId = NoChat]

\* the send button, or Enter in the textarea: both are disabled while isGenerating
SendMessage ==
    /\ Mounted
    /\ ~MicrotaskPending
    /\ \E text \in TypedTexts : StartSend(text, isGenerating, messages, chats, currentChatId)
    /\ UNCHANGED <<chats, currentChatId, recognition, isListening, utterance, clock>>
    /\ UNCHANGED <<mobile, relayVars, streamVars, storage, startup>>

\* the send button again, once the typed and spoken sends are used up
SendMessageLate ==
    /\ Mounted
    /\ ~MicrotaskPending
    /\ \E text \in TypedTexts :
        StartSendWithin(MaxSends + 1, text, isGenerating, messages, chats, currentChatId)
    /\ UNCHANGED <<chats, currentChatId, recognition, isListening, utterance, clock>>
    /\ UNCHANGED <<mobile, relayVars, streamVars, storage, startup>>

\* the mic button (disabled while isGenerating): startListening, then onstart
StartListening ==
    /\ Mounted
    /\ ~MicrotaskPending
    /\ ~isGenerating
    /\ ~isListening
    /\ ~recognition.active
    /\ recognition' = [active |-> TRUE, isGenerating |-> isGenerating, messages |-> messages,
                       chats |-> chats, currentChatId |-> currentChatId]
    /\ isListening' = TRUE
    /\ status' = Listening
    /\ UNCHANGED <<messages, isGenerating, chats, currentChatId, abortControllerRef, sends,
                   utterance, clock>>
    /\ UNCHANGED <<mobile, relayVars, streamVars, storage, startup>>

\* recognition.onresult: sendMessage of the render in which startListening ran
SpeechResult ==
    /\ ~MicrotaskPending
    /\ recognition.active
    /\ \E transcript \in Transcripts :
        StartSend(transcript, recognition.isGenerating, recognition.messages,
                  recognition.chats, recognition.currentChatId)
    /\ recognition' = NoRecognition
    /\ UNCHANGED <<chats, currentChatId, isListening, utterance, clock>>
    /\ UNCHANGED <<mobile, relayVars, streamVars, storage, startup>>

\* recognition.onend
SpeechEnd ==
    /\ ~MicrotaskPending
    /\ isListening
    /\ isListening' = FALSE
    /\ status' = Ready
    /\ recognition' = NoRecognition
    /\ UNCHANGED <<messages, isGenerating, chats, currentChatId, abortControllerRef, sends,
                   utterance, clock>>
    /\ UNCHANGED <<mobile, relayVars, streamVars, storage, startup>>

\* await fetch(...) resolves with a 2xx response that has a body stream
FetchOk(i) ==
    /\ ~MicrotaskPending
    /\ sends[i].pc = "fetch"
    /\ sends' = [sends EXCEPT ![i].pc = "reading"]
    /\ UNCHANGED <<messages, isGenerating, status, chats, currentChatId, abortControllerRef,
                   recognition, isListening, utterance, clock>>
    /\ UNCHANGED <<mobile, relayVars, streamVars, storage, startup>>

\* await fetch(...) resolves with a 2xx response whose body is null:
\* if (response.body) is skipped and sendMessage returns
FetchNoBody(i) ==
    /\ ~MicrotaskPending
    /\ sends[i].pc = "fetch"
    /\ sends' = Finish(i, "nobody")
    /\ UNCHANGED <<messages, isGenerating, status, chats, currentChatId, abortControllerRef,
                   recognition, isListening, utterance, clock>>
    /\ UNCHANGED <<mobile, relayVars, streamVars, storage, startup>>

\* await fetch(...) resolves with a non-2xx response: await response.json()
FetchNotOk(i) ==
    /\ ~MicrotaskPending
    /\ sends[i].pc = "fetch"
    /\ sends' = [sends EXCEPT ![i].pc = "errbody"]
    /\ UNCHANGED <<messages, isGenerating, status, chats, currentChatId, abortControllerRef,
                   recognition, isListening, utterance, clock>>
    /\ UNCHANGED <<mobile, relayVars, streamVars, storage, startup>>

\* the !response.ok branch once response.json().catch(() => null) settled
NotOkBranch(i, data) ==
    /\ status' = ErrorStatus(Detail(data))
    /\ messages' = sends[i].nextMessages
    /\ isGenerating' = FALSE
    /\ sends' = [Finish(i, "http") EXCEPT ![i].data = data]

ErrorBodyArrives(i) ==
    /\ ~MicrotaskPending
    /\ sends[i].pc = "errbody"
    /\ \E data \in ErrorDatas : NotOkBranch(i, data)
    /\ UNCHANGED <<chats, currentChatId, abortControllerRef, recognition, isListening,
                   utterance, clock>>
    /\ UNCHANGED <<mobile, relayVars, streamVars, storage, startup>>

\* the catch block without setMessages(nextMessages)
CatchBranch_NoRollback(i, isAbort) ==
    /\ status' = IF isAbort THEN Cancelled ELSE NetworkError
    /\ messages' = messages
    /\ isGenerating' = FALSE
    /\ sends' = Finish(i, IF isAbort THEN "cancel" ELSE "neterr")

\* catch (error): error.name === "AbortError" or not
CatchBranch(i, isAbort) ==
    /\ status' = IF isAbort THEN Cancelled ELSE NetworkError
    /\ messages' = sends[i].nextMessages
    /\ isGenerating' = FALSE
    /\ sends' = Finish(i, IF isAbort THEN "cancel" ELSE "neterr")

\* fetch rejects (the relay is unreachable), or reader.read() rejects
\* (the connection broke)
NetworkFails(i) ==
    /\ ~MicrotaskPending
    /\ sends[i].pc \in {"fetch", "reading"}
    /\ CatchBranch(i, FALSE)
    /\ UNCHANGED <<chats, currentChatId, abortControllerRef, recognition, isListening,
                   utterance, clock>>
    /\ UNCHANGED <<mobile, relayVars, streamVars, storage, startup>>

\* messages after the setMessages([...nextMessages, {assistant,
\* assistantMessage}]) calls of one chunk: the last call's value
Published(i, pubs) ==
    IF pubs # <<>>
    THEN Append(sends[i].nextMessages, Turn("assistant", pubs[Len(pubs)]))
    ELSE messages

\* reader.read() returns a chunk, and the loop body
ReadChunk(i) ==
    /\ ~MicrotaskPending
    /\ sends[i].pc = "reading"
    /\ \E chunk \in WebChunks(sends[i].assistantMessage) :
        /\ sends' = [sends EXCEPT
                        ![i].assistantMessage = ProcessChunk(@, chunk),
                        ![i].received = @ \o ChunkContents(chunk),
                        ![i].published = @ \o Publications(sends[i].assistantMessage, chunk)]
        /\ messages' = Published(i, Publications(sends[i].assistantMessage, chunk))
    /\ UNCHANGED <<isGenerating, status, chats, currentChatId, abortControllerRef,
                   recognition, isListening, utterance, clock>>
    /\ UNCHANGED <<mobile, relayVars, streamVars, storage, startup>>

\* finalMessages without the assistant turn
FinalMessages_NoAssistantTurn(i) == sends[i].nextMessages

FinalMessages(i) == Append(sends[i].nextMessages, Turn("assistant", sends[i].assistantMessage))

\* reader.read() returns done: lines 425-435
StreamCompletes(i) ==
    /\ ~MicrotaskPending
    /\ sends[i].pc = "reading"
    /\ messages' = FinalMessages(i)
    /\ status' = IF sends[i].assistantMessage # <<>> THEN Ready ELSE NoReply
    /\ isGenerating' = FALSE
    /\ chats' = SaveChatChats(sends[i].chats, sends[i].currentChatId, FinalMessages(i), clock + 1)
    /\ currentChatId' = SaveChatCurrent(sends[i].currentChatId, clock + 1)
    /\ clock' = IF sends[i].currentChatId # NoChat THEN clock ELSE clock + 1
    /\ IF sends[i].assistantMessage # <<>>
       THEN Speak(sends[i].assistantMessage)
       ELSE UNCHANGED utterance
    /\ storage' = Persist(chats')
    /\ sends' = Finish(i, "ok")
    /\ UNCHANGED <<abortControllerRef, recognition, isListening, startup>>
    /\ UNCHANGED <<mobile, relayVars, streamVars>>

\* abortControllerRef.current?.abort()
Abort(ref) ==
    IF ref \in DOMAIN sends THEN [sends EXCEPT ![ref].aborted = TRUE] ELSE sends

\* the stop button, shown while isGenerating
StopGenerating ==
    /\ ~MicrotaskPending
    /\ isGenerating
    /\ sends' = Abort(abortControllerRef)
    /\ isGenerating' = FALSE
    /\ status' = Stopped
    /\ UNCHANGED <<messages, chats, currentChatId, abortControllerRef, recognition,
                   isListening, utterance, clock>>
    /\ UNCHANGED <<mobile, relayVars, streamVars, storage, startup>>

\* the rejection an abort causes, delivered to the aborted send: fetch and
\* reader.read() reject into catch (error); response.json() rejects into
\* its own .catch(() => null)
AbortDelivered(i) ==
    /\ sends[i].aborted
    /\ InFlight(i)
    /\ IF sends[i].pc = "errbody"
       THEN NotOkBranch(i, NullData)
       ELSE CatchBranch(i, TRUE)
    /\ UNCHANGED <<chats, currentChatId, abortControllerRef, recognition, isListening,
                   utterance, clock>>
    /\ UNCHANGED <<mobile, relayVars, streamVars, storage, startup>>

\* the effects of the first render with the persistence effect run before
\* the load effect: the load reads what the persistence effect wrote
StartupEffects_PersistFirst ==
    /\ startup.phase = "unmounted"
    /\ startup' = [phase |-> "effects", read |-> storage,
                   loaded |-> ReadJson(Persist(chats), <<>>)]
    /\ storage' = Persist(chats)
    /\ UNCHANGED <<messages, isGenerating, status, chats, currentChatId, abortControllerRef,
                   sends, recognition, isListening, utterance, clock>>
    /\ UNCHANGED <<mobile, relayVars, streamVars>>

\* the effects of the first render, in the order they are declared: the load
\* effect reads the item and hands it to setChats, then the persistence
\* effect writes the chats of the first render
StartupEffects ==
    /\ startup.phase = "unmounted"
    /\ startup' = [phase |-> "effects", read |-> storage, loaded |-> ReadJson(storage, <<>>)]
    /\ storage' = Persist(chats)
    /\ UNCHANGED <<messages, isGenerating, status, chats, currentChatId, abortControllerRef,
                   sends, recognition, isListening, utterance, clock>>
    /\ UNCHANGED <<mobile, relayVars, streamVars>>

\* the render that setChats of the load effect causes, and the persistence
\* effect after it
StartupRender ==
    /\ startup.phase = "effects"
    /\ chats' = startup.loaded
    /\ storage' = Persist(chats')
    /\ startup' = AfterStartup
    /\ UNCHANGED <<messages, isGenerating, status, currentChatId, abortControllerRef,
                   sends, recognition, isListening, utterance, clock>>
    /\ UNCHANGED <<mobile, relayVars, streamVars>>

\* the ids of the conversations the sidebar lists
ListedIds == {chats[k].id : k \in DOMAIN chats}

\* what the user may enter in the rename prompt
NewTitles == {<<"t", Quote, Backslash>>}

\* clearChat()
ClearChatEffect ==
    /\ messages' = initialMessages
    /\ status' = Ready
    /\ currentChatId' = NoChat

\* the New chat button
ClearChat ==
    /\ Mounted
    /\ ~MicrotaskPending
    /\ ClearChatEffect
    /\ UNCHANGED <<isGenerating, chats, abortControllerRef, sends, recognition, isListening,
                   utterance, clock, storage, startup>>
    /\ UNCHANGED <<mobile, relayVars, streamVars>>

\* chats.find(c => c.id === chatId)
FindChat(cs, chatId) == cs[CHOOSE k \in DOMAIN cs :
                            /\ cs[k].id = chatId
                            /\ \A j \in 1..(k - 1) : cs[j].id # chatId]

\* a click on a conversation of the sidebar: loadChat(chat.id)
LoadChat ==
    /\ Mounted
    /\ ~MicrotaskPending
    /\ \E chatId \in ListedIds :
        /\ messages' = FindChat(chats, chatId).messages
        /\ currentChatId' = chatId
        /\ status' = Ready
    /\ UNCHANGED <<isGenerating, chats, abortControllerRef, sends, recognition, isListening,
                   utterance, clock, storage, startup>>
    /\ UNCHANGED <<mobile, relayVars, streamVars>>

\* deleteChat that drops the newest conversation, whatever id was asked for
RemoveChat_Head(cs, chatId) == Tail(cs)

IsNot(chatId, c) == c.id # chatId

\* chats.filter(c => c.id !== chatId)
RemoveChat(cs, chatId) == SelectSeq(cs, LAMBDA c : IsNot(chatId, c))

\* the delete button of a conversation, confirmed: deleteChat(chat.id), and
\* the persistence effect
DeleteChat ==
    /\ Mounted
    /\ ~MicrotaskPending
    /\ \E chatId \in ListedIds :
        /\ chats' = RemoveChat(chats, chatId)
        /\ IF currentChatId = chatId
           THEN ClearChatEffect
           ELSE UNCHANGED <<messages, status, currentChatId>>
    /\ storage' = Persist(chats')
    /\ UNCHANGED <<isGenerating, abortControllerRef, sends, recognition, isListening,
                   utterance, clock, startup>>
    /\ UNCHANGED <<mobile, relayVars, streamVars>>

\* chats.map(chat => chat.id === chatId ? { ...chat, title: newTitle } : chat)
Retitle(cs, chatId, newTitle) ==
    [k \in DOMAIN cs |-> IF cs[k].id = chatId THEN [cs[k] EXCEPT !.title = newTitle] ELSE cs[k]]

\* the rename button of a conversation with a non-empty answer to the prompt:
\* renameChat(chat.id, newTitle), and the persistence effect
RenameChat ==
    /\ Mounted
    /\ ~MicrotaskPending
    /\ \E chatId \in ListedIds, newTitle \in NewTitles :
        chats' = Retitle(chats, chatId, newTitle)
    /\ storage' = Persist(chats')
    /\ UNCHANGED <<messages, isGenerating, status, currentChatId, abortControllerRef,
                   sends, recognition, isListening, utterance, clock, startup>>
    /\ UNCHANGED <<mobile, relayVars, streamVars>>

----------------------------------------------------------------------------
(* Mobile client: App of the Expo app.  Voice is taken to be installed.    *)

MobileInitialMessages ==
    <<Turn("assistant", <<"Welcome to AVAS AI. Speak naturally or type your questions. I'm here to help!">>)>>

\* Voice.onSpeechResults before startListening set it
NoVoice == [active |-> FALSE, messages |-> <<>>]

MobileIdle ==
    mobile = [messages |-> MobileInitialMessages,
              listening |-> FALSE,
              status |-> <<"Ready">>,
              isGenerating |-> FALSE,
              requests |-> <<>>,
              voice |-> NoVoice,
              spoken |-> <<>>,
              alert |-> ""]

\* what response.json() gives on a 2xx answer: a message, an empty one, or
\* a body without the field
MobileDatas == {[hasMessage |-> TRUE, message |-> <<"a">>],
                [hasMessage |-> TRUE, message |-> <<>>],
                [hasMessage |-> FALSE, message |-> <<>>]}

\* data?.message ?? "Sorry, I didn't get that."
AssistantText(data) ==
    IF data.hasMessage THEN data.message ELSE <<"Sorry, I didn't get that.">>

MobileInFlight(i) == mobile.requests[i].pc = "fetch"

\* if (!text.trim()) return, while fewer than MaxSends calls have started
MobileSends(text) == TrimNonEmpty(text) /\ Len(mobile.requests) < MaxSends

\* sendMessage(text) up to its first await, under the messages of the render
\* it was created in: the state it leaves
MobileStartSend(text, cMessages) ==
    [mobile EXCEPT
        !.messages = Append(cMessages, Turn("user", text)),
        !.status = <<"Thinking...">>,
        !.isGenerating = TRUE,
        !.requests = Append(@, [pc |-> "fetch", text |-> text,
                                nextMessages |-> Append(cMessages, Turn("user", text))])]

\* the send button: disabled while isGenerating or while the input is blank
MobileSendMessage ==
    /\ ~mobile.isGenerating
    /\ \E text \in TypedTexts :
        /\ MobileSends(text)
        /\ mobile' = MobileStartSend(text, mobile.messages)
    /\ UNCHANGED <<relayVars, streamVars, webVars>>

\* the voice button while not listening: startListening
MobileStartListening ==
    /\ ~mobile.listening
    /\ mobile' = [mobile EXCEPT !.voice = [active |-> TRUE, messages |-> mobile.messages],
                                !.listening = TRUE,
                                !.status = <<"Listening...">>]
    /\ UNCHANGED <<relayVars, streamVars, webVars>>

\* the voice button while listening: stopListening
MobileStopListening ==
    /\ mobile.listening
    /\ mobile' = [mobile EXCEPT !.voice.active = FALSE,
                                !.listening = FALSE,
                                !.status = <<"Ready">>]
    /\ UNCHANGED <<relayVars, streamVars, webVars>>

\* Voice.onSpeechResults: sendMessage of the render in which startListening
\* ran; the recognition session ends with its result
MobileSpeechResults ==
    /\ mobile.voice.active
    /\ \E transcript \in Transcripts :
        /\ MobileSends(transcript)
        /\ mobile' = [MobileStartSend(transcript, mobile.voice.messages)
                        EXCEPT !.voice.active = FALSE]
    /\ UNCHANGED <<relayVars, streamVars, webVars>>

\* Voice.onSpeechError
MobileSpeechError ==
    /\ mobile.voice.active
    /\ mobile' = [mobile EXCEPT !.voice.active = FALSE,
                                !.listening = FALSE,
                                !.status = <<"Mic error">>]
    /\ UNCHANGED <<relayVars, streamVars, webVars>>

\* the fetch resolves with a 2xx status and response.json() with the data
MobileResponds(i) ==
    /\ MobileInFlight(i)
    /\ \E data \in MobileDatas :
        mobile' = [mobile EXCEPT
            !.messages = Append(mobile.requests[i].nextMessages,
                                Turn("assistant", AssistantText(data))),
            !.status = <<"Ready">>,
            !.isGenerating = FALSE,
            !.spoken = IF AssistantText(data) # <<>> THEN AssistantText(data) ELSE @,
            !.requests[i].pc = "done"]
    /\ UNCHANGED <<relayVars, streamVars, webVars>>

\* the fetch resolves with a status that is not 2xx
MobileApiError(i) ==
    /\ MobileInFlight(i)
    /\ mobile' = [mobile EXCEPT !.status = <<"API error">>,
                                !.isGenerating = FALSE,
                                !.requests[i].pc = "done"]
    /\ UNCHANGED <<relayVars, streamVars, webVars>>

\* the fetch or response.json() rejects: the catch block
MobileNetworkError(i) ==
    /\ MobileInFlight(i)
    /\ mobile' = [mobile EXCEPT !.status = <<"Network error">>,
                                !.isGenerating = FALSE,
                                !.alert = "Connection Error",
                                !.requests[i].pc = "done"]
    /\ UNCHANGED <<relayVars, streamVars, webVars>>

----------------------------------------------------------------------------
(* States in which a client or the relay has not started                   *)

WebIdle ==
    /\ messages = initialMessages
    /\ isGenerating = FALSE
    /\ status = Ready
    /\ chats = <<>>
    /\ currentChatId = NoChat
    /\ abortControllerRef = 0
    /\ sends = <<>>
    /\ recognition = NoRecognition
    /\ isListening = FALSE
    /\ utterance = <<>>
    /\ clock = 0
    /\ storage = Persist(<<>>)
    /\ startup = AfterStartup

----------------------------------------------------------------------------
(* Relay: POST /chat                                                       *)

\* req.body.messages: an array of messages, or anything else (absent, a string, ...)
ArrayOf(items) == [isArray |-> TRUE, items |-> items]
NotArray == [isArray |-> FALSE, items |-> <<>>]
Roles == {"user", "assistant", "system"}
Contents == {<<>>, <<" ">>, <<"a">>}
Msgs == [role : Roles, content : Contents]
\* stream: true, false or absent
StreamFlags == {"true", "false", "undefined"}
Fragments == {<<>>, <<"a">>, <<"b">>}
BackendErrors == {"quota exceeded"}
TypeErrorMessage == "Cannot read properties of undefined (reading 'content')"

NoBody == [error |-> "", detail |-> "", hint |-> "", message |-> <<>>, kind |-> "none"]
ErrorBody(e, d, h) == [error |-> e, detail |-> d, hint |-> h, message |-> <<>>, kind |-> "error"]
MessageBody(t) == [error |-> "", detail |-> "", hint |-> "", message |-> t, kind |-> "message"]

FreshRes == [statusCode |-> 200, headersSent |-> FALSE, contentType |-> "",
             json |-> NoBody, body |-> <<>>, ended |-> FALSE, sent |-> 0]

\* res.status(code).json(body); res.json keeps a Content-Type already set
ResJson(r, code, body) ==
    [r EXCEPT !.statusCode = code, !.headersSent = TRUE,
              !.contentType = IF @ = "" THEN "application/json" ELSE @,
              !.json = body, !.ended = TRUE, !.sent = r.sent + 1]

\* the Array.isArray check left out
IsArray_Unchecked(m) == TRUE

IsArray(m) == m.isArray

ValidationBody == ErrorBody("messages must be an array", "", "")

\* the envelope of the catch block used for the missing credential
NotConfiguredBody_AsUpstream ==
    ErrorBody("gemini_request_failed", "GEMINI_API_KEY environment variable is not set", "")

NotConfiguredBody ==
    ErrorBody("gemini_not_configured", "GEMINI_API_KEY environment variable is not set", "")

\* msg.content && msg.content.trim()
KeepMsg(msg) == msg.content # <<>> /\ TrimNonEmpty(msg.content)

\* every role other than assistant handed on as it is
MapRole_PassThrough(role) == IF role = "assistant" THEN "model" ELSE role

MapRole(role) == IF role = "assistant" THEN "model" ELSE "user"

ToContent(msg) == [role |-> MapRole(msg.role), text |-> msg.content]

\* messages.slice(0, -1)
AllButLast(m) == IF Len(m) = 0 THEN <<>> ELSE SubSeq(m, 1, Len(m) - 1)

FilterMap(m) == [i \in 1..Len(SelectSeq(m, KeepMsg)) |-> ToContent(SelectSeq(m, KeepMsg)[i])]

\* history.filter((_, index) => index > 0) when history[0].role !== "user"
DropLeading(h) == IF Len(h) > 0 /\ h[1].role # "user" THEN Tail(h) ELSE h

ConvertHistory(m) == DropLeading(FilterMap(AllButLast(m)))

UseStream(flag) == flag # "false"

\* the envelope without the error's message
CatchBody_NoDetail(message) ==
    ErrorBody("gemini_request_failed", "", "Check your GEMINI_API_KEY and rate limits.")

CatchBody(message) ==
    ErrorBody("gemini_request_failed", message, "Check your GEMINI_API_KEY and rate limits.")

\* catch (error) { return res.status(502).json(...) }: res.json sets a header,
\* which throws once res.write has flushed the headers
Catch(r, message) ==
    IF r.headersSent
    THEN /\ res' = [r EXCEPT !.statusCode = 502]
         /\ escaped' = TRUE
    ELSE /\ res' = ResJson(r, 502, CatchBody(message))
         /\ UNCHANGED escaped

\* res.setHeader("Content-Type", "text/event-stream") and the two after it,
\* in the stream branch
StreamHeaders(r, flag) ==
    IF UseStream(flag) THEN [r EXCEPT !.contentType = "text/event-stream"] ELSE r

\* lastMessage read as if it were always there
LastMessageMissing_Never(items) == FALSE

\* const lastMessage = messages[messages.length - 1] is undefined
LastMessageMissing(items) == Len(items) = 0

\* the handler up to its first await
PostChat ==
    /\ rpc = "received"
    /\ IF ~IsArray(req.messages)
       THEN /\ res' = ResJson(res, 400, ValidationBody)
            /\ rpc' = "done"
            /\ UNCHANGED <<history, backendCalls, escaped>>
       ELSE IF ~genAI
       THEN /\ res' = ResJson(res, 500, NotConfiguredBody)
            /\ rpc' = "done"
            /\ UNCHANGED <<history, backendCalls, escaped>>
       ELSE /\ history' = ConvertHistory(req.messages.items)
            /\ IF LastMessageMissing(req.messages.items)
               THEN \* lastMessage.content throws a TypeError
                    /\ Catch(StreamHeaders(res, req.stream), TypeErrorMessage)
                    /\ rpc' = "done"
                    /\ UNCHANGED backendCalls
               ELSE /\ res' = StreamHeaders(res, req.stream)
                    /\ rpc' = IF UseStream(req.stream) THEN "awaitStream" ELSE "awaitSend"
                    /\ backendCalls' = backendCalls + 1
                    /\ UNCHANGED escaped
    /\ UNCHANGED <<req, genAI, backendText>>
    /\ UNCHANGED <<streamVars, webVars, mobile>>

\* await chat.sendMessageStream(...) resolves
StreamOpens ==
    /\ rpc = "awaitStream"
    /\ rpc' = "streaming"
    /\ UNCHANGED <<req, genAI, res, history, backendCalls, backendText, escaped>>
    /\ UNCHANGED <<streamVars, webVars, mobile>>

\* one iteration of for await (const chunk of result.stream)
StreamChunk ==
    /\ rpc = "streaming"
    /\ Len(backendText) < MaxFragments
    /\ \E text \in Fragments :
        /\ backendText' = Append(backendText, text)
        /\ res' = IF text # <<>>
                  THEN [res EXCEPT !.headersSent = TRUE, !.body = @ \o WireLine(text)]
                  ELSE res
    /\ UNCHANGED <<req, genAI, rpc, history, backendCalls, escaped>>
    /\ UNCHANGED <<streamVars, webVars, mobile>>

\* the stream is exhausted: res.end()
StreamEnds ==
    /\ rpc = "streaming"
    /\ res' = [res EXCEPT !.headersSent = TRUE, !.ended = TRUE, !.sent = @ + 1]
    /\ rpc' = "done"
    /\ UNCHANGED <<req, genAI, history, backendCalls, backendText, escaped>>
    /\ UNCHANGED <<streamVars, webVars, mobile>>

\* sendMessageStream rejects, or the stream iterator throws
StreamFails ==
    /\ rpc \in {"awaitStream", "streaming"}
    /\ \E e \in BackendErrors : Catch(res, e)
    /\ rpc' = "done"
    /\ UNCHANGED <<req, genAI, history, backendCalls, backendText>>
    /\ UNCHANGED <<streamVars, webVars, mobile>>

\* await chat.sendMessage(...) resolves: res.json({message, raw})
SendReplies ==
    /\ rpc = "awaitSend"
    /\ \E frags \in SeqsUpTo(Fragments, MaxFragments) :
        /\ backendText' = frags
        /\ res' = ResJson(res, 200, MessageBody(Concat(frags)))
    /\ rpc' = "done"
    /\ UNCHANGED <<req, genAI, history, backendCalls, escaped>>
    /\ UNCHANGED <<streamVars, webVars, mobile>>

\* await chat.sendMessage(...) rejects
SendFails ==
    /\ rpc = "awaitSend"
    /\ \E e \in BackendErrors : Catch(res, e)
    /\ rpc' = "done"
    /\ UNCHANGED <<req, genAI, history, backendCalls, backendText>>
    /\ UNCHANGED <<streamVars, webVars, mobile>>

RelayIdle ==
    /\ req = [messages |-> NotArray, stream |-> "undefined"]
    /\ genAI = FALSE
    /\ rpc = "idle"
    /\ res = FreshRes
    /\ history = <<>>
    /\ backendCalls = 0
    /\ backendText = <<>>
    /\ escaped = FALSE

StreamIdle ==
    /\ wire = <<>>
    /\ unread = <<>>
    /\ assistantMessage = <<>>
    /\ reads = <<>>
    /\ readerDone = TRUE

InitRelay ==
    /\ req \in [messages : {ArrayOf(m) : m \in SeqsUpTo(Msgs, MaxMsgs)} \cup {NotArray},
              stream : StreamFlags]
    /\ genAI \in BOOLEAN
    /\ rpc = "received"
    /\ res = FreshRes
    /\ history = <<>>
    /\ backendCalls = 0
    /\ backendText = <<>>
    /\ escaped = FALSE
    /\ StreamIdle
    /\ WebIdle
    /\ MobileIdle

NextRelay ==
    \/ PostChat
    \/ StreamOpens
    \/ StreamChunk
    \/ StreamEnds
    \/ StreamFails
    \/ SendReplies
    \/ SendFails

SpecRelay == InitRelay /\ [][NextRelay]_vars

----------------------------------------------------------------------------
(* The web client as a whole                                               *)

Init ==
    /\ WebIdle
    /\ RelayIdle
    /\ StreamIdle
    /\ MobileIdle

Next ==
    \/ SendMessage
    \/ StartListening
    \/ SpeechResult
    \/ SpeechEnd
    \/ \E i \in DOMAIN sends : FetchOk(i)
    \/ \E i \in DOMAIN sends : FetchNoBody(i)
    \/ \E i \in DOMAIN sends : FetchNotOk(i)
    \/ \E i \in DOMAIN sends : ErrorBodyArrives(i)
    \/ \E i \in DOMAIN sends : NetworkFails(i)
    \/ \E i \in DOMAIN sends : ReadChunk(i)
    \/ \E i \in DOMAIN sends : StreamCompletes(i)
    \/ StopGenerating
    \/ \E i \in DOMAIN sends : AbortDelivered(i)

Spec == Init /\ [][Next]_vars

\* the same client with one send more, and only the steps of sends that
\* overlap: a typed send, a spoken one, and a typed one after them
NextRace ==
    \/ SendMessageLate
    \/ StartListening
    \/ SpeechResult
    \/ \E i \in DOMAIN sends : FetchOk(i)
    \/ \E i \in DOMAIN sends : NetworkFails(i)
    \/ \E i \in DOMAIN sends : ReadChunk(i)
    \/ \E i \in DOMAIN sends : StreamCompletes(i)

SpecRace == Init /\ [][NextRace]_vars

----------------------------------------------------------------------------
(* The web client from its first render, with the conversation list        *)

\* a conversation saved by an earlier session
StoredChat ==
    [id |-> 1, title |-> <<"q">>,
     messages |-> initialMessages \o <<Turn("user", <<"q">>), Turn("assistant", <<"a", "b">>)>>,
     createdAt |-> 1]

StoredCollections == {<<>>, <<StoredChat>>}

\* the item as an earlier session left it
ValidItems == {Stored(Stringify(cs)) : cs \in StoredCollections}

\* an item that is the empty string, is not JSON, is cut short, or has
\* text after the value
CorruptItems ==
    {Stored(<<>>), Stored(<<"x">>), Stored(Stringify(<<StoredChat>>) \o <<"x">>)}
        \cup {Stored(SubSeq(Stringify(<<StoredChat>>), 1, k)) :
                    k \in 1..(Len(Stringify(<<StoredChat>>)) - 1)}

InitChats ==
    /\ storage \in {Absent} \cup ValidItems \cup CorruptItems
    /\ startup = BeforeStartup
    /\ messages = initialMessages
    /\ isGenerating = FALSE
    /\ status = Ready
    /\ chats = <<>>
    /\ currentChatId = NoChat
    /\ abortControllerRef = 0
    /\ sends = <<>>
    /\ recognition = NoRecognition
    /\ isListening = FALSE
    /\ utterance = <<>>
    /\ clock = 1
    /\ RelayIdle
    /\ StreamIdle
    /\ MobileIdle

NextChats ==
    \/ StartupEffects
    \/ StartupRender
    \/ SendMessage
    \/ \E i \in DOMAIN sends : FetchOk(i)
    \/ \E i \in DOMAIN sends : ReadChunk(i)
    \/ \E i \in DOMAIN sends : StreamCompletes(i)
    \/ ClearChat
    \/ LoadChat
    \/ DeleteChat
    \/ RenameChat

SpecChats == InitChats /\ [][NextChats]_vars

----------------------------------------------------------------------------
(* The mobile client as a whole                                            *)

InitMobile ==
    /\ MobileIdle
    /\ WebIdle
    /\ RelayIdle
    /\ StreamIdle

NextMobile ==
    \/ MobileSendMessage
    \/ MobileStartListening
    \/ MobileStopListening
    \/ MobileSpeechResults
    \/ MobileSpeechError
    \/ \E i \in DOMAIN mobile.requests : MobileResponds(i)
    \/ \E i \in DOMAIN mobile.requests : MobileApiError(i)
    \/ \E i \in DOMAIN mobile.requests : MobileNetworkError(i)

SpecMobile == InitMobile /\ [][NextMobile]_vars

----------------------------------------------------------------------------
(* Stream read loop of sendMessage, over one wire stream and every way of  *)
(* cutting it into reads                                                    *)

WireLines == {WireLine(<<"a">>), WireLine(<<"b">>), WireLine(<<>>), JunkLine, BlankLine}
WireStreams == {Concat(ls) : ls \in SeqsUpTo(WireLines, MaxLines)}

\* const { done, value } = await reader.read(), not done, and the loop body
ReaderRead ==
    /\ ~readerDone
    /\ unread # <<>>
    /\ \E k \in 1..Len(unread) :
        /\ reads' = Append(reads, SubSeq(unread, 1, k))
        /\ assistantMessage' = ProcessChunk(assistantMessage, SubSeq(unread, 1, k))
        /\ unread' = SubSeq(unread, k + 1, Len(unread))
    /\ UNCHANGED <<wire, readerDone>>
    /\ UNCHANGED <<relayVars, webVars, mobile>>

\* reader.read() returns done: break
ReaderDone ==
    /\ ~readerDone
    /\ unread = <<>>
    /\ readerDone' = TRUE
    /\ UNCHANGED <<wire, unread, assistantMessage, reads>>
    /\ UNCHANGED <<relayVars, webVars, mobile>>

InitStream ==
    /\ wire \in WireStreams
    /\ unread = wire
    /\ assistantMessage = <<>>
    /\ reads = <<>>
    /\ readerDone = FALSE
    /\ RelayIdle
    /\ WebIdle
    /\ MobileIdle

NextStream ==
    \/ ReaderRead
    \/ ReaderDone

SpecStream == InitStream /\ [][NextStream]_vars

----------------------------------------------------------------------------
(* Claims about the relay                                                  *)

\* a turn of the history is a turn of the request other than its last one
FromAllButLast(h, items) ==
    \E i \in 1..(Len(items) - 1) : h = ToContent(items[i])

\* C5: the history passed to the backend is built from all messages except
\* the last, holds no turn with empty or whitespace-only content, and is
\* empty or begins with a user-role turn, however long the leading run of
\* non-user turns is.
C5_HistoryBeginsWithUser ==
    backendCalls > 0 =>
        /\ \A i \in 1..Len(history) : FromAllButLast(history[i], req.messages.items)
        /\ \A i \in 1..Len(history) : TrimNonEmpty(history[i].text)
        /\ (history = <<>> \/ history[1].role = "user")

\* C8 as stated: with the credential missing, every request body, whatever
\* messages is, gets 500 gemini_not_configured and no backend call.
C8_NotConfiguredForEveryBody ==
    (~genAI /\ rpc = "done") =>
        /\ res.statusCode = 500
        /\ res.json.error = "gemini_not_configured"
        /\ res.json.detail = "GEMINI_API_KEY environment variable is not set"
        /\ backendCalls = 0

\* C8 amended: with the credential missing, every request body whose messages
\* value is an array gets exactly one response, 500 gemini_not_configured with
\* detail 'GEMINI_API_KEY environment variable is not set', whatever the
\* array holds, and no backend call is made.
C8_NotConfiguredForEveryArray ==
    (~genAI /\ req.messages.isArray /\ rpc = "done") =>
        /\ res.statusCode = 500
        /\ res.json.kind = "error"
        /\ res.json.error = "gemini_not_configured"
        /\ res.json.detail = "GEMINI_API_KEY environment variable is not set"
        /\ res.sent = 1
        /\ backendCalls = 0

C8_Witness ==
    /\ ~genAI
    /\ req.messages.isArray
    /\ Len(req.messages.items) = MaxMsgs
    /\ rpc = "done"
    /\ res.statusCode = 500

\* C9: a messages value that is missing or not an array gets 400 with
\* {error: 'messages must be an array'} and no backend call is made.
C9_NonArrayIs400 ==
    (~req.messages.isArray /\ rpc = "done") =>
        /\ res.statusCode = 400
        /\ res.json.kind = "error"
        /\ res.json.error = "messages must be an array"
        /\ res.json.detail = ""
        /\ res.sent = 1
        /\ backendCalls = 0

C9_Witness ==
    /\ ~req.messages.isArray
    /\ genAI
    /\ rpc = "done"
    /\ res.statusCode = 400

\* C10: every failure raised while the handler runs, also a backend failure
\* after fragment lines were written, ends in a JSON error envelope, and no
\* error escapes the request handler.
C10_EveryFailureIsAnEnvelope ==
    /\ ~escaped
    /\ (rpc = "done" /\ res.statusCode = 502) =>
            (res.json.kind = "error" /\ res.ended /\ res.sent = 1)

\* the request is a non-empty array of turns that ends in a user turn, and
\* the credential is configured
EndsInUserTurn ==
    /\ genAI
    /\ req.messages.isArray
    /\ Len(req.messages.items) > 0
    /\ req.messages.items[Len(req.messages.items)].role = "user"

\* C11: for every non-empty messages array ending in a user turn, a
\* non-streamed POST /chat with the credential configured sends exactly one
\* response: 200 with the backend's complete text in message, or 502 with
\* error 'gemini_request_failed' and the backend's message as detail; never
\* both and never none.
C11_OneResultOrOneError ==
    (EndsInUserTurn /\ req.stream = "false") =>
        /\ ~escaped
        /\ rpc # "done" => res.sent = 0
        /\ rpc = "done" =>
            /\ res.sent = 1
            /\ res.ended
            /\ \/ /\ res.statusCode = 200
                  /\ res.json.kind = "message"
                  /\ res.json.message = Concat(backendText)
               \/ /\ res.statusCode = 502
                  /\ res.json.kind = "error"
                  /\ res.json.error = "gemini_request_failed"
                  /\ res.json.detail \in BackendErrors
                  /\ res.json.hint # ""

C11_Witness ==
    /\ EndsInUserTurn
    /\ Len(req.messages.items) = MaxMsgs
    /\ req.stream = "false"
    /\ rpc = "done"
    /\ res.statusCode = 502
    /\ res.json.detail \in BackendErrors

\* C24: POST /chat with an empty messages array and the credential set
\* makes no backend call and sends exactly one response, a JSON error
\* envelope with a status other than 200, streamed or not; it is answered in
\* the handler's first step.
C24_EmptyArrayIsAnError ==
    (genAI /\ IsArray(req.messages) /\ req.messages.items = <<>>) =>
        /\ backendCalls = 0
        /\ ~escaped
        /\ rpc \in {"received", "done"}
        /\ rpc = "received" => res.sent = 0
        /\ rpc = "done" =>
            /\ res.sent = 1
            /\ res.ended
            /\ res.statusCode = 502
            /\ res.json.kind = "error"
            /\ res.json.error = "gemini_request_failed"
            /\ res.json.detail = TypeErrorMessage
            /\ res.body = <<>>

\* an empty array in streamed mode was answered with the error envelope
C24_Witness ==
    /\ genAI
    /\ IsArray(req.messages)
    /\ req.messages.items = <<>>
    /\ UseStream(req.stream)
    /\ rpc = "done"
    /\ res.statusCode = 502
    /\ res.json.kind = "error"
    /\ res.contentType = "text/event-stream"

NonEmptyText(t) == t # <<>>

\* C12: for the same backend fragments, the contents of the lines written in
\* streamed mode, concatenated in the order written, are the message string
\* of non-streamed mode; every written line is {"message":{"content":
\* fragment}} and a newline, one per non-empty fragment, and the response is
\* ended after the last of them with no further line.
C12_StreamedEqualsNonStreamed ==
    (rpc = "done" /\ backendCalls > 0 /\ res.statusCode = 200) =>
        IF UseStream(req.stream)
        THEN /\ Len(Split(res.body)) = Len(SelectSeq(backendText, NonEmptyText)) + 1
             /\ Split(res.body)[Len(Split(res.body))] = <<>>
             /\ \A k \in 1..Len(SelectSeq(backendText, NonEmptyText)) :
                    /\ JsonValid(Split(res.body)[k])
                    /\ JsonContent(Split(res.body)[k]) = SelectSeq(backendText, NonEmptyText)[k]
             /\ Concat(ChunkContents(res.body)) = Concat(backendText)
             /\ res.ended
             /\ res.json = NoBody
        ELSE /\ res.json = MessageBody(Concat(backendText))
             /\ res.body = <<>>

C12_Witness ==
    /\ rpc = "done"
    /\ UseStream(req.stream)
    /\ res.statusCode = 200
    /\ res.ended
    /\ Len(backendText) = MaxFragments
    /\ Len(SelectSeq(backendText, NonEmptyText)) = MaxFragments
    /\ backendText[1] # backendText[2]

\* the turns of the request the history is made from, before conversion
KeptTurns == SelectSeq(AllButLast(req.messages.items), KeepMsg)

\* the number of leading kept turns the history leaves out
Dropped == Len(KeptTurns) - Len(history)

\* C20 as stated: in the history handed to the backend, a turn with role
\* 'assistant' has the backend role 'model' and a turn with any other role
\* keeps its own role (a 'system' turn stays 'system').
C20_OtherRolesPassThrough ==
    backendCalls > 0 =>
        \A i \in 1..Len(history) :
            /\ history[i].text = KeptTurns[i + Dropped].content
            /\ history[i].role = IF KeptTurns[i + Dropped].role = "assistant"
                                 THEN "model"
                                 ELSE KeptTurns[i + Dropped].role

\* C20 amended: in the history handed to the backend, a turn with role
\* 'assistant' has the backend role 'model' and a turn with any other role,
\* 'system' included, has the backend role 'user'; the text is unchanged.
C20_OtherRolesBecomeUser ==
    backendCalls > 0 =>
        /\ Dropped \in {0, 1}
        /\ \A i \in 1..Len(history) :
            /\ history[i].text = KeptTurns[i + Dropped].content
            /\ history[i].role = IF KeptTurns[i + Dropped].role = "assistant"
                                 THEN "model"
                                 ELSE "user"

C20_Witness ==
    /\ backendCalls > 0
    /\ Len(req.messages.items) = 3
    /\ req.messages.items[1] = [role |-> "system", content |-> <<"a">>]
    /\ req.messages.items[2] = [role |-> "assistant", content |-> <<"a">>]
    /\ history = <<[role |-> "user", text |-> <<"a">>], [role |-> "model", text |-> <<"a">>]>>

\* the filtering of the history on its own: the empty turns taken out, the
\* roles converted, the leading turn dropped when it is not a user turn
HistoryFilter(turns) == DropLeading(FilterMap(turns))

\* a converted history read as turns again
AsTurns(h) ==
    [k \in 1..Len(h) |->
        [role |-> IF h[k].role = "model" THEN "assistant" ELSE h[k].role,
         content |-> h[k].text]]

\* the turns start with a user turn and none of them is empty
ValidHistory(turns) ==
    /\ turns # <<>> => turns[1].role = "user"
    /\ \A k \in 1..Len(turns) : KeepMsg(turns[k])

\* C21: the history filtering gives its input back, same turns in the same
\* order, when the input starts with a user turn and has no empty turn; and
\* applied to its own output it gives that output again.
C21_FilterIsIdempotent ==
    backendCalls > 0 =>
        /\ history = HistoryFilter(AllButLast(req.messages.items))
        /\ ValidHistory(AllButLast(req.messages.items)) =>
                /\ Len(history) = Len(AllButLast(req.messages.items))
                /\ \A k \in 1..Len(history) :
                        /\ history[k].text = AllButLast(req.messages.items)[k].content
                        /\ history[k].role =
                                (IF AllButLast(req.messages.items)[k].role = "assistant"
                                 THEN "model" ELSE "user")
        /\ HistoryFilter(AsTurns(history)) = history

\* the first half of C21 alone
C21_ValidHistoryUnchanged ==
    (backendCalls > 0 /\ ValidHistory(AllButLast(req.messages.items))) =>
        AsTurns(history) =
            [k \in 1..(Len(req.messages.items) - 1) |->
                [role |-> IF req.messages.items[k].role = "assistant" THEN "assistant" ELSE "user",
                 content |-> req.messages.items[k].content]]

----------------------------------------------------------------------------
(* Claims about the web client                                             *)

InFlightSends == {i \in DOMAIN sends : InFlight(i)}

\* send i leaves its async function in this step
Finishes(i, outcome) == InFlight(i) /\ sends'[i].outcome = outcome

\* C2: at most one send is in flight at any time.
C2_OneSendInFlight == Cardinality(InFlightSends) <= 1

\* C3: when the user cancels (stopGenerating), the connection of the send in
\* flight is aborted, that send makes no later display-buffer update, and
\* the status it settles on is 'Cancelled', never 'Ready' or an error status.
C3_CancelSettlesOnCancelled ==
    [][/\ (isGenerating /\ status' = <<"Stopped">>) =>
              \A i \in InFlightSends : sends'[i].aborted
       /\ \A i \in DOMAIN sends :
            (sends[i].aborted /\ InFlight(i)) =>
                /\ sends'[i].assistantMessage = sends[i].assistantMessage
                /\ sends'[i].pc = "done" => status' = <<"Cancelled">>]_vars

\* C4: when a send is cancelled mid-stream, the turn sequence shown loses
\* the partial assistant turn (it ends with the request's user turn) and the
\* saved collection is left as it was: saveChat is not called.
C4_CancelDiscardsPartial ==
    [][\A i \in DOMAIN sends :
        (sends[i].pc = "reading" /\ sends[i].aborted /\ Finishes(i, "cancel")) =>
            /\ messages' = sends[i].nextMessages
            /\ messages'[Len(messages')].role = "user"
            /\ chats' = chats
            /\ currentChatId' = currentChatId]_vars

C4_Witness ==
    \E i \in DOMAIN sends :
        /\ sends[i].outcome = "cancel"
        /\ sends[i].assistantMessage # <<>>
        /\ messages = sends[i].nextMessages
        /\ status = <<"Cancelled">>

\* C6: when a send fails (fetch rejects, or the body stream breaks after
\* fragments were received), the status is the network error, isGenerating
\* is false, and the turn sequence is the request's turn sequence: the
\* placeholder assistant turn is gone and the sequence ends with the user turn.
C6_FailureRollsBack ==
    [][\A i \in DOMAIN sends :
        Finishes(i, "neterr") =>
            /\ status' = <<"Network error. Is the API running?">>
            /\ ~isGenerating'
            /\ messages' = sends[i].nextMessages
            /\ messages'[Len(messages')].role = "user"
            /\ chats' = chats]_vars

C6_Witness ==
    \E i \in DOMAIN sends :
        /\ sends[i].outcome = "neterr"
        /\ sends[i].assistantMessage # <<>>
        /\ messages = sends[i].nextMessages
        /\ ~isGenerating

\* the conversation saveChat wrote for send i holds msgs: the new head entry,
\* made active, when the send started with no active conversation, and else
\* every entry with the id the send started in
SavedBy(i, msgs) ==
    IF sends[i].currentChatId = NoChat
    THEN /\ Len(chats') = Len(sends[i].chats) + 1
         /\ chats'[1].messages = msgs
         /\ currentChatId' = chats'[1].id
    ELSE /\ Len(chats') = Len(sends[i].chats)
         /\ \A k \in DOMAIN chats' :
                chats'[k].id = sends[i].currentChatId => chats'[k].messages = msgs

\* C23: when the relay answers a send with a non-2xx status, the status
\* line becomes 'Error: ' and the body's detail, else its error, else
\* 'unknown_error'; the placeholder assistant turn is removed, isGenerating
\* becomes false and nothing is saved.
C23_NonOkSurfacesDetail ==
    [][\A i \in DOMAIN sends :
        Finishes(i, "http") =>
            /\ sends[i].pc = "errbody"
            /\ status' = <<"Error: ",
                           IF sends'[i].data.hasDetail THEN sends'[i].data.detail
                           ELSE IF sends'[i].data.hasError THEN sends'[i].data.error
                           ELSE "unknown_error">>
            /\ messages' = sends[i].nextMessages
            /\ messages'[Len(messages')].role = "user"
            /\ isGenerating' = FALSE
            /\ chats' = chats
            /\ currentChatId' = currentChatId
            /\ storage' = storage]_vars

\* a non-2xx answer whose body had both a detail and an error was surfaced
C23_Witness ==
    \E i \in DOMAIN sends :
        /\ sends[i].outcome = "http"
        /\ sends[i].data.hasDetail
        /\ sends[i].data.hasError
        /\ status = <<"Error: ", sends[i].data.detail>>
        /\ ~isGenerating
        /\ messages = sends[i].nextMessages

\* C25: every send that starts a request sets isGenerating back to false
\* and leaves a status other than 'Processing...' once its fetch has settled
\* and its body stream, if any, has ended, a successful response without a
\* body stream included: when every send has returned, isGenerating is false
\* and the status is not 'Processing...'.
C25_EverySendSettles ==
    (sends # <<>> /\ InFlightSends = {}) =>
        /\ ~isGenerating
        /\ status # <<"Processing...">>

\* the same for the sends that did not get a response without a body
C25_SendsWithABodySettle ==
    (sends # <<>> /\ InFlightSends = {}
        /\ \A i \in DOMAIN sends : sends[i].outcome # "nobody") =>
            /\ ~isGenerating
            /\ status # <<"Processing...">>

RequestsOf(k) == {i \in DOMAIN sends : sends[i].nextMessages = SubSeq(messages, 1, k)}

\* C22: outside an in-flight send the displayed turns keep insertion order,
\* a user turn whose request completed is followed at once by exactly one
\* assistant turn, a user turn whose request failed or was cancelled is
\* followed by no assistant turn, and two assistant turns never follow one
\* user turn.
C22_OneReplyPerCompletedRequest ==
    InFlightSends = {} =>
        \A k \in DOMAIN messages :
            messages[k].role = "user" =>
                /\ RequestsOf(k) # {}
                /\ IF k < Len(messages) /\ messages[k + 1].role = "assistant"
                   THEN /\ \E i \in RequestsOf(k) : sends[i].outcome \in {"ok", "nobody"}
                        /\ k + 1 < Len(messages) => messages[k + 2].role # "assistant"
                   ELSE \E i \in RequestsOf(k) : sends[i].outcome \in {"neterr", "cancel", "http"}

----------------------------------------------------------------------------
(* Claims about the conversation list                                      *)

\* C15: after every operation that changes the in-memory collection
\* (saveChat, renameChat, deleteChat, the startup load) and its persistence
\* step, the item 'avas-chats' is exactly the JSON text of the whole
\* in-memory collection.
C15_StorageIsTheCollection ==
    startup.phase # "unmounted" => (storage.present /\ storage.raw = Stringify(chats))

C15_Witness ==
    /\ Mounted
    /\ Len(chats) = 2
    /\ \E k \in DOMAIN chats : chats[k].title \in NewTitles
    /\ \E i \in DOMAIN sends : sends[i].outcome = "ok"
    /\ storage.raw = Stringify(chats)

\* C16: saving a collection and then loading it gives a collection equal to
\* the one saved, for every collection, the empty one included, and
\* whatever the fallback of the load is.
C16_SaveThenLoad ==
    /\ ReadJson(Persist(chats), <<>>) = chats
    /\ ReadJson(Persist(chats), <<StoredChat>>) = chats

C16_Witness ==
    /\ Len(chats) = 2
    /\ \E k \in DOMAIN chats : chats[k].title \in NewTitles
    /\ ReadJson(storage, <<>>) = chats

\* C17: loading the collection at startup never raises, and when the stored
\* value is absent or fails to parse the loaded collection is empty.
C17_CorruptLoadsEmpty ==
    (startup.phase = "effects" /\ startup.read \notin ValidItems) => startup.loaded = <<>>

C17_Witness ==
    /\ startup.phase = "effects"
    /\ startup.read = Stored(Stringify(<<StoredChat>>) \o <<"x">>)
    /\ startup.loaded = <<>>

\* the conversation list after saveChat(msgs) added one conversation at its
\* head and made it active
AddsOne(before, msgs) ==
    /\ Len(chats') = Len(before) + 1
    /\ chats'[1].messages = msgs
    /\ chats'[1].title = TitleOf(SelectSeq(msgs, IsUser)[1].content)
    /\ currentChatId' = chats'[1].id
    /\ \A k \in DOMAIN before : chats'[k + 1] = before[k]

\* the conversation list after saveChat(msgs) replaced the turns of the
\* conversation id and added no entry
ReplacesTurns(before, id, msgs) ==
    /\ Len(chats') = Len(before)
    /\ \A k \in DOMAIN before :
        /\ chats'[k].id = before[k].id
        /\ chats'[k].messages = IF before[k].id = id THEN msgs ELSE before[k].messages

\* C18: when a send completes with no active conversation, saveChat adds
\* exactly one new conversation holding the completed turns, titled with the
\* first user turn cut to 50 characters (and '...' when it was longer), and
\* makes it active; when a conversation is active, saveChat replaces that
\* conversation's turns and adds no entry.
C18_SaveCreatesOrReplaces ==
    [][\A i \in DOMAIN sends :
        Finishes(i, "ok") =>
            IF currentChatId = NoChat
            THEN AddsOne(chats, messages')
            ELSE ReplacesTurns(chats, currentChatId, messages')]_vars

\* the same for the conversation list and the active conversation as they
\* were when the send started
C18_SaveAsTheSendSawIt ==
    [][\A i \in DOMAIN sends :
        Finishes(i, "ok") =>
            IF sends[i].currentChatId = NoChat
            THEN AddsOne(sends[i].chats, messages')
            ELSE ReplacesTurns(sends[i].chats, sends[i].currentChatId, messages')]_vars

\* send i completes in this step and saves
Completes(i) == sends[i].pc = "reading" /\ sends'[i].outcome = "ok"

\* C26: after renameChat(id, newTitle) the conversation keeps that title
\* across every later operation that is not a rename or its deletion: a
\* send that was started after the rename and completes while the
\* conversation is listed under that title leaves the title as it is.
C26_RenameSurvivesSends ==
    [][\A i \in DOMAIN sends :
        Completes(i) =>
            \A k \in DOMAIN sends[i].chats :
                (/\ sends[i].chats[k].title \in NewTitles
                 /\ \E j \in DOMAIN chats : chats[j] = sends[i].chats[k]) =>
                    \E j \in DOMAIN chats' :
                        /\ chats'[j].id = sends[i].chats[k].id
                        /\ chats'[j].title = sends[i].chats[k].title]_vars

\* the same for the conversations the send does not belong to
C26_OtherTitlesSurviveSends ==
    [][\A i \in DOMAIN sends :
        Completes(i) =>
            \A k \in DOMAIN sends[i].chats :
                (/\ sends[i].chats[k].title \in NewTitles
                 /\ sends[i].chats[k].id # sends[i].currentChatId
                 /\ \E j \in DOMAIN chats : chats[j] = sends[i].chats[k]) =>
                    \E j \in DOMAIN chats' :
                        /\ chats'[j].id = sends[i].chats[k].id
                        /\ chats'[j].title = sends[i].chats[k].title]_vars

\* the conversations of a list other than the send's own and the one its
\* save creates
OthersOf(cs, own, new) == {cs[k] : k \in {n \in DOMAIN cs : cs[n].id \notin {own, new}}}

\* C27: a deletion or rename made while a send is in flight is still in
\* effect after the send completes and saves: the save changes only the
\* send's own conversation, so every other conversation is listed after the
\* save exactly when it was listed before it, with the same title and turns.
C27_SaveKeepsLaterEdits ==
    [][\A i \in DOMAIN sends :
        Completes(i) =>
            OthersOf(chats', sends[i].currentChatId, clock + 1)
                = OthersOf(chats, sends[i].currentChatId, clock + 1)]_vars

\* the same when the list was not changed during the flight
C27_SaveKeepsAnUneditedList ==
    [][\A i \in DOMAIN sends :
        (Completes(i) /\ sends[i].chats = chats) =>
            OthersOf(chats', sends[i].currentChatId, clock + 1)
                = OthersOf(chats, sends[i].currentChatId, clock + 1)]_vars

\* what send i last put on display: its turns and the reply so far
ShownBy(i) == Append(sends[i].nextMessages, Turn("assistant", sends[i].assistantMessage))

\* C28: when the user opened another conversation or started a new chat
\* while a send is in flight, so that the display is no longer what the send
\* put there, no later step of that send (a fragment, its completion)
\* changes the display.
C28_SelectionStaysOnDisplay ==
    [][\A i \in DOMAIN sends :
        (InFlight(i) /\ sends'[i] # sends[i] /\ messages # ShownBy(i)) =>
            messages' = messages]_vars

\* C29: when storage holds a valid collection at startup, then once the
\* load effect and the persistence effect have run and the loaded list is
\* rendered, the list in memory and the item stored under 'avas-chats' are
\* the collection that was stored before startup.
C29_StartupKeepsStoredChats ==
    [][(startup.phase = "effects" /\ startup.read \in ValidItems
            /\ startup'.phase = "mounted") =>
        /\ chats' \in StoredCollections
        /\ Stored(Stringify(chats')) = startup.read
        /\ storage' = startup.read]_vars

\* startup is over, nothing was sent or edited, and the stored conversation
\* is listed and stored
C29_Witness ==
    /\ Mounted
    /\ sends = <<>>
    /\ chats = <<StoredChat>>
    /\ storage = Stored(Stringify(<<StoredChat>>))

\* C19: deleteChat(id) removes exactly the entry with that id and leaves
\* every other entry as it was; when id is the active conversation, no
\* conversation is active afterwards and the display is the fresh one; when
\* it is not, the active id and the displayed turns are unchanged.
C19_DeleteRemovesOne ==
    [][(sends' = sends /\ Len(chats') < Len(chats)) =>
        \E k \in DOMAIN chats :
            /\ chats' = SubSeq(chats, 1, k - 1) \o SubSeq(chats, k + 1, Len(chats))
            /\ \A j \in DOMAIN chats' : chats'[j].id # chats[k].id
            /\ IF currentChatId = chats[k].id
               THEN /\ currentChatId' = NoChat
                    /\ messages' = initialMessages
                    /\ \A j \in DOMAIN messages' : messages'[j].role # "user"
               ELSE /\ currentChatId' = currentChatId
                    /\ messages' = messages]_vars

C19_Witness ==
    /\ Mounted
    /\ \E i \in DOMAIN sends : sends[i].outcome = "ok"
    /\ currentChatId = NoChat
    /\ messages = initialMessages
    /\ status = <<"Ready">>
    /\ chats = <<StoredChat>>

----------------------------------------------------------------------------
(* Claims about the stream read loop                                       *)

\* C1: however the response bytes are cut into reads, the final accumulated
\* text is the concatenation, in order, of message.content of every
\* well-formed newline-terminated line of the stream.
C1_SplitsDoNotLoseLines ==
    readerDone => assistantMessage = Concat(ChunkContents(wire))

\* the stream {"message":{"content":"a"}}\nNOTJSON\n{"message":{"content":"b"}}\n
JunkBetween == WireLine(<<"a">>) \o JunkLine \o WireLine(<<"b">>)

\* C13: a line that is not valid JSON is dropped without stopping the
\* stream, and every valid line after it is still appended: the stream of a
\* line for 'a', a line NOTJSON and a line for 'b' ends with buffer 'ab'.
C13_JunkLineIsSkipped ==
    (readerDone /\ wire = JunkBetween) => assistantMessage = <<"a", "b">>

\* the same when every read ends at the end of a line
C13_WholeLineReads ==
    (readerDone /\ wire = JunkBetween
        /\ \A k \in DOMAIN reads : reads[k][Len(reads[k])] = "\n")
            => assistantMessage = <<"a", "b">>

----------------------------------------------------------------------------
(* Claims about the mobile client                                          *)

MobileUserTurns == SelectSeq(mobile.messages, IsUser)

\* C30: in the mobile client at most one request is in flight at any time,
\* so a send made while isGenerating is true starts no second request, and
\* no turn is lost: the turn sequence holds a user turn for every request
\* that was started.
C30_OneRequestNoTurnLost ==
    /\ Cardinality({i \in DOMAIN mobile.requests : MobileInFlight(i)}) <= 1
    /\ Len(MobileUserTurns) = Len(mobile.requests)

\* the same for sends made one after the other
C30_SendsInTurnLoseNothing ==
    [][(/\ \A i \in DOMAIN mobile.requests : ~MobileInFlight(i)
        /\ Len(mobile'.requests) > Len(mobile.requests)
        /\ mobile.voice.messages \in {<<>>, mobile.messages}) =>
            /\ Len(SelectSeq(mobile'.messages, IsUser)) = Len(MobileUserTurns) + 1
            /\ SubSeq(mobile'.messages, 1, Len(mobile.messages)) = mobile.messages]_vars

====
